---- MODULE Spec2Model ----
(***************************************************************************)
(* Model of the vault engine of vault/vault.py: the password-derived key   *)
(* hierarchy, the content-addressed blob store, the SQLite index and the   *)
(* record operations of class Vault.                                       *)
(*                                                                         *)
(* Cryptography is modelled symbolically: a ciphertext records the key,    *)
(* nonce, plaintext and associated data it was made with, and decrypts     *)
(* only under the same key and associated data; SHA-256 and the KDFs are   *)
(* injective constructors; the CSPRNG never repeats a value.               *)
(*                                                                         *)
(* Each Vault method is a sequence of steps of a thread, one step per      *)
(* access to shared state (self.mk, the index, the blob directory), so     *)
(* that a failure, a crash or another thread can fall between two steps.   *)
(***************************************************************************)
EXTENDS Integers, Sequences, FiniteSets, TLC

VARIABLES
    meta,          \* table meta: key -> value
    items,         \* table items: item_id -> row
    secrets,       \* table secrets: secret_id -> row
    files,         \* table files: file_id -> row
    blobs,         \* directory blobs/sha256: address -> file content
    mk,            \* Vault.mk
    salt,          \* Vault.salt
    rng,           \* per record, the number of DEKs drawn from the CSPRNG for it
    now,           \* wall clock, in milliseconds
    threads,       \* the threads that call the engine
    th,            \* per thread: position in the method it runs and its locals
    res,           \* per thread: outcome of the last method it ran
    committed,     \* history: item_id -> number of committed update_identity
    pw,            \* history: the password of the last unlock, None when locked
    written_pw,    \* history: per record, the password in force when its row was written
    faults,        \* history: number of I/O failures and crashes so far
    tampered       \* history: number of out-of-band edits of the stores

vars == << meta, items, secrets, files, blobs, mk, salt, rng, now,
           threads, th, res, committed, pw, written_pw, faults, tampered >>

-----------------------------------------------------------------------------
(* Bounds of the model *)

MaxBlobs == 3
MaxClock == 1
MaxFaults == 1
MaxTamper == 1

AllThreads == {1, 2}

Passwords == {"P1", "P2"}
UseArgon2 == {TRUE}
ItemIds == {"", "item-aaaa"}
SecretIds == {"sec-bbbb", "sec-cccc"}
FileIds == {"", "vault-dek-wrap-v1"}

-----------------------------------------------------------------------------
(* Python values *)

\* None where a key or a record is expected
None == [kind |-> "None"]
\* None where a string is expected (JSON null)
Null == "<None>"
\* None where bytes are expected
NoBytes == << >>

\* str.encode(): the UTF-8 bytes of a string
encode(s) == << s >>
\* truth value of an Optional[bytes]: None and b"" are both false
Truthy(b) == b # NoBytes /\ b # << "" >>

EmptyMap == [x \in {} |-> x]

\* d with d[k] = v (dict item assignment, INSERT of a row)
Put(d, k, v) == [x \in DOMAIN d \cup {k} |-> IF x = k THEN v ELSE d[x]]

SALT_LEN == 16
MK_LEN == 32
DEK_LEN == 32
WRAP_INFO == encode("vault-dek-wrap-v1")
ITERATIONS_PBKDF2 == 480000
\* the argon2 package imported at module load
HAVE_ARGON2 == TRUE

\* secrets.token_bytes(n): a value never drawn before. A drawn value is named by
\* r = << table, primary key, position >>, the record it is drawn for and the
\* number of values drawn for that record before it, so that no two are equal
token_bytes(n, r) == [kind |-> "random", len |-> n, id |-> r]

sha256_hex(data) == << "sha256", data >>

b64encode(x) == [b64 |-> x]
b64decode(s) == s.b64

-----------------------------------------------------------------------------
(* Key derivation and AEAD *)

\* a KDF call that leaves the password out of its input
derive_master_key_no_password(password, s, use_argon2) ==
    IF use_argon2 /\ HAVE_ARGON2
    THEN [kind |-> "mk", alg |-> "argon2id", cost |-> 2, len |-> MK_LEN,
          password |-> "", salt |-> s]
    ELSE [kind |-> "mk", alg |-> "pbkdf2-hmac-sha256", cost |-> ITERATIONS_PBKDF2,
          len |-> MK_LEN, password |-> "", salt |-> s]

derive_master_key(password, s, use_argon2) ==
    IF use_argon2 /\ HAVE_ARGON2
    THEN [kind |-> "mk", alg |-> "argon2id", cost |-> 2, len |-> MK_LEN,
          password |-> password, salt |-> s]
    ELSE [kind |-> "mk", alg |-> "pbkdf2-hmac-sha256", cost |-> ITERATIONS_PBKDF2,
          len |-> MK_LEN, password |-> password, salt |-> s]

\* AESGCM treats associated data None as the empty byte string
GcmAad(aad) == IF aad = NoBytes THEN << "" >> ELSE aad

\* a convergent encryption: key and nonce derived from the plaintext, no
\* associated data, so that equal plaintexts give equal ciphertexts
aead_encrypt_convergent(key, plaintext, aad, nonce) ==
    << [nonce |-> [kind |-> "random", len |-> 12, id |-> << "convergent", "", 0 >>],
        key |-> [kind |-> "random", len |-> 32, id |-> << "convergent", "", 0 >>],
        pt |-> plaintext, aad |-> << "" >>] >>

\* the bytes nonce || ciphertext || tag, as a one-element sequence; the empty
\* sequence is the empty byte string
aead_encrypt(key, plaintext, aad, nonce) ==
    << [nonce |-> nonce, key |-> key, pt |-> plaintext, aad |-> GcmAad(aad)] >>

Ok(v) == [err |-> "ok", val |-> v]
Raise(e) == [err |-> e, val |-> None]

\* a decrypt that does not authenticate the associated data
aead_decrypt_no_aad(key, blob, aad) ==
    IF blob = << >> THEN Raise("ValueError")
    ELSE IF key = None THEN Raise("TypeError")
    ELSE IF blob[1].key = key THEN Ok(blob[1].pt)
    ELSE Raise("InvalidTag")

aead_decrypt(key, blob, aad) ==
    IF blob = << >> THEN Raise("ValueError")
    ELSE IF key = None THEN Raise("TypeError")
    ELSE IF blob[1].key = key /\ blob[1].aad = GcmAad(aad) THEN Ok(blob[1].pt)
    ELSE Raise("InvalidTag")

derive_wrap_key(m) ==
    IF m = None THEN None ELSE [kind |-> "hkdf", ikm |-> m, info |-> "vault-wrap-key", len |-> 32]

wrap_aad(aad) == IF Truthy(aad) THEN aad ELSE WRAP_INFO

\* a wrap_dek that passes aad on as it is, where unwrap_dek falls back to WRAP_INFO
wrap_dek_raw_aad(m, dek, aad, nonce) ==
    IF m = None THEN Raise("TypeError")
    ELSE Ok(aead_encrypt(derive_wrap_key(m), dek, aad, nonce))

\* wrap_dek raises TypeError when mk is None (HKDF.derive(None))
wrap_dek(m, dek, aad, nonce) ==
    IF m = None THEN Raise("TypeError")
    ELSE Ok(aead_encrypt(derive_wrap_key(m), dek, wrap_aad(aad), nonce))

unwrap_dek(m, wrapped_blob, aad) ==
    IF m = None THEN Raise("TypeError")
    ELSE aead_decrypt(derive_wrap_key(m), wrapped_blob, wrap_aad(aad))

make_dek(r) == token_bytes(DEK_LEN, r)

-----------------------------------------------------------------------------
(* Blob store *)

BlobExists(h) == h \in DOMAIN blobs

\* a read that takes a missing file for an empty one
read_blob_by_hash_missing_as_empty(h) == IF BlobExists(h) THEN Ok(blobs[h]) ELSE Ok(<< >>)

read_blob_by_hash(h) == IF BlobExists(h) THEN Ok(blobs[h]) ELSE Raise("FileNotFoundError")

\* a decrypt_blob_with_wrapped_dek that passes aad to unwrap_dek only
decrypt_blob_payload_unbound(m, blob_hash, wrapped_dek, aad) ==
    LET ciphertext == read_blob_by_hash(blob_hash)
        dek == unwrap_dek(m, wrapped_dek, aad)
    IN  IF ciphertext.err # "ok" THEN Raise(ciphertext.err)
        ELSE IF dek.err # "ok" THEN Raise(dek.err)
        ELSE aead_decrypt(dek.val, ciphertext.val, NoBytes)

decrypt_blob_with_wrapped_dek(m, blob_hash, wrapped_dek, aad) ==
    LET ciphertext == read_blob_by_hash(blob_hash)
        dek == unwrap_dek(m, wrapped_dek, aad)
    IN  IF ciphertext.err # "ok" THEN Raise(ciphertext.err)
        ELSE IF dek.err # "ok" THEN Raise(dek.err)
        ELSE aead_decrypt(dek.val, ciphertext.val, aad)

-----------------------------------------------------------------------------
(* Payloads *)

IdentityFields == {"schema", "item_id", "name", "dob", "email", "phone", "address",
                   "national_id", "tags", "notes", "site_specific", "audit"}
IdentityRequired == {"schema", "item_id", "name"}
SecretFields == {"schema", "secret_id", "type", "username", "password", "totp_uri",
                 "notes", "history", "audit"}
SecretRequired == {"schema", "secret_id", "type", "username", "password"}

\* pii.get(k): the value of k, None when pii has no key k
PiiGet(pii, k) == IF k \in DOMAIN pii THEN pii[k] ELSE Null

\* asdict(IdentityBlob(...)) as create_identity builds it
IdentityDict(item_id, name, pii, t) ==
    [schema |-> "vault.identity@1", item_id |-> item_id, name |-> name,
     dob |-> PiiGet(pii, "dob"), email |-> PiiGet(pii, "email"),
     phone |-> PiiGet(pii, "phone"), address |-> PiiGet(pii, "address"),
     national_id |-> PiiGet(pii, "national_id"), tags |-> << >>,
     notes |-> PiiGet(pii, "notes"), site_specific |-> EmptyMap,
     audit |-> [created_at |-> t, updated_at |-> t]]

\* asdict(SecretBlob(...)) as create_secret builds it
SecretDict(secret_id, secret_type, username, password, t) ==
    [schema |-> "vault.secret@1", secret_id |-> secret_id, type |-> secret_type,
     username |-> username, password |-> password, totp_uri |-> Null,
     notes |-> Null, history |-> << >>,
     audit |-> [created_at |-> t, updated_at |-> t]]

\* json.dumps(obj).encode("utf-8") and json.loads(b.decode("utf-8"))
json_dumps(obj) == [json |-> obj]
json_loads(b) == b.json

\* Dataclass(**obj): TypeError on an unexpected keyword or a missing required field
FromDict(obj, fields, required) ==
    IF DOMAIN obj \subseteq fields /\ required \subseteq DOMAIN obj
    THEN Ok([k \in fields |-> IF k \in DOMAIN obj THEN obj[k] ELSE Null])
    ELSE Raise("TypeError")

\* obj.update({k: v for k, v in updates.items() if v is not None});
\* obj.setdefault("audit", {}); obj["audit"]["updated_at"] = now_ms()
NonNull(updates) == {k \in DOMAIN updates : updates[k] # Null}

MergeUpdates(obj, updates, t) ==
    LET merged == [k \in DOMAIN obj \cup NonNull(updates) |->
                       IF k \in NonNull(updates) THEN updates[k] ELSE obj[k]]
        audit == IF "audit" \in DOMAIN merged THEN merged["audit"] ELSE EmptyMap
    IN  Put(merged, "audit", Put(audit, "updated_at", t))

-----------------------------------------------------------------------------
(* Inputs the callers pass *)

Domains == {"example.com"}
Names == {"Alice"}
Piis == {[email |-> "a@e.com", phone |-> "+1"]}
OwnerIds == {"item-aaaa"}
IdentityUpdates == {[phone |-> "+2"], [name |-> "Bob", email |-> Null],
                    [domain |-> "other.org"], [item_id |-> "item-zzzz"]}
SecretUpdates == {[password |-> "n3w-p@ss", notes |-> Null], [item_id |-> "item-aaaa"]}
FileBytes == {[raw |-> "same-bytes"]}
\* ciphertexts handed to write_blob by a caller of the blob store
Ciphertexts ==
    {<< [nonce |-> [kind |-> "random", len |-> 12, id |-> << "caller", "", n >>],
         key |-> [kind |-> "random", len |-> 32, id |-> << "caller", "", n >>],
         pt |-> [raw |-> "same-bytes"], aad |-> << "" >>] >> : n \in {1, 2}}

-----------------------------------------------------------------------------
(* Threads *)

Idle == [pc |-> "idle", op |-> "", id |-> "", owner |-> "", upd |-> EmptyMap,
         obj |-> EmptyMap, pt |-> None, ver |-> 0, title |-> Null, domain |-> Null,
         mk_dec |-> None, mk |-> None, pw |-> Null, dek |-> None, ct |-> << >>,
         hash |-> << >>, wrapped |-> << >>, ts |-> 0, salt |-> None]

NoResult == [op |-> "", id |-> "", err |-> "", val |-> None]

Result(op, id, err, val) == [op |-> op, id |-> id, err |-> err, val |-> val]

Mutating == {"create_identity", "update_identity", "create_secret", "update_secret",
             "add_file"}

\* blob files on disk plus the blob files the running methods are still to create
BlobsClaimed ==
    Cardinality(DOMAIN blobs)
    + Cardinality({t \in threads : th[t].op \in Mutating /\ th[t].pc \in {"get", "enc"}})

Return(t, r) ==
    /\ th' = [th EXCEPT ![t] = Idle]
    /\ res' = [res EXCEPT ![t] = r]

Goto(t, locals) ==
    /\ th' = [th EXCEPT ![t] = locals]
    /\ res' = [res EXCEPT ![t] = NoResult]

\* the first statement of a record method: assert self.mk is not None; a method
\* that passes it goes on at pc with its arguments in locals
Enter(t, op, id, pc, locals) ==
    IF mk = None
    THEN Return(t, Result(op, id, "AssertionError", None))
    ELSE Goto(t, [locals EXCEPT !.pc = pc, !.op = op, !.id = id])

UnchangedStores == UNCHANGED << meta, items, secrets, files, blobs >>
UnchangedVault == UNCHANGED << mk, salt, pw >>
UnchangedEnv == UNCHANGED << rng, now, threads >>
UnchangedHistory == UNCHANGED << committed, written_pw, faults, tampered >>

-----------------------------------------------------------------------------
(* Lifecycle: Vault.__init__, unlock, lock *)

\* _ensure_salt with the CSPRNG at position r: << self.salt, table meta >>
ensure_salt(m, r) ==
    IF "salt" \in DOMAIN m
    THEN << b64decode(m["salt"]), m >>
    ELSE << token_bytes(SALT_LEN, r), Put(m, "salt", b64encode(token_bytes(SALT_LEN, r))) >>

Records == ({"items"} \X ItemIds) \cup ({"secrets"} \X SecretIds) \cup ({"files"} \X FileIds)

TableOf(op) ==
    CASE op \in {"create_identity", "update_identity", "load_identity"} -> "items"
      [] op \in {"create_secret", "update_secret", "load_secret"} -> "secrets"
      [] OTHER -> "files"

InitVault ==
    /\ rng = [r \in Records |-> 0]
    /\ salt = ensure_salt(EmptyMap, << "meta", "salt", 1 >>)[1]
    /\ meta = ensure_salt(EmptyMap, << "meta", "salt", 1 >>)[2]
    /\ items = EmptyMap /\ secrets = EmptyMap /\ files = EmptyMap
    /\ blobs = EmptyMap
    /\ mk = None
    /\ pw = Null
    /\ written_pw = [r \in Records |-> Null]
    /\ now = 0
    /\ th = [t \in AllThreads |-> Idle]
    /\ res = [t \in AllThreads |-> NoResult]
    /\ faults = 0
    /\ committed = [i \in ItemIds |-> 0]
    /\ tampered = 0

unlock(t, password, use_argon2) ==
    /\ th[t].pc = "idle"
    /\ mk' = derive_master_key(password, salt, use_argon2)
    /\ pw' = password
    /\ Return(t, Result("unlock", "", "ok", None))
    /\ UnchangedStores /\ UnchangedEnv
    /\ UNCHANGED salt /\ UnchangedHistory

\* Vault.__init__ on a thread of its own, as when two Vault objects are made on
\* one database file. _ensure_salt up to session.get(Meta, "salt"): a row found
\* gives self.salt and ends the constructor, which returns the object as
\* [salt, mk]; with no row found the salt is drawn
ensure_salt_get(t) ==
    /\ th[t].pc = "idle"
    /\ IF "salt" \in DOMAIN meta
       THEN Return(t, Result("__init__", "", "ok",
                             [salt |-> b64decode(meta["salt"]), mk |-> None]))
       ELSE Goto(t, [Idle EXCEPT !.pc = "merge", !.op = "__init__",
                                 !.salt = token_bytes(SALT_LEN, << "meta", "salt", t >>)])
    /\ UnchangedStores /\ UnchangedVault /\ UnchangedEnv /\ UnchangedHistory

\* session.merge(Meta(key="salt", ...)): loads the row by primary key, and
\* leaves an UPDATE pending when it finds one, an INSERT when it finds none
ensure_salt_merge(t) ==
    /\ th[t].pc = "merge"
    /\ th' = [th EXCEPT ![t] = [@ EXCEPT !.pc = "flush",
                  !.upd = [stmt |-> IF "salt" \in DOMAIN meta THEN "UPDATE" ELSE "INSERT"]]]
    /\ UNCHANGED res
    /\ UnchangedStores /\ UnchangedVault /\ UnchangedEnv /\ UnchangedHistory

\* session.commit() flushes the pending statement; self.salt = salt
ensure_salt_commit(t) ==
    /\ th[t].pc = "flush"
    /\ IF th[t].upd.stmt = "INSERT" /\ "salt" \in DOMAIN meta
       THEN /\ Return(t, Result("__init__", "", "IntegrityError", None))
            /\ UNCHANGED meta
       ELSE /\ meta' = Put(meta, "salt", b64encode(th[t].salt))
            /\ Return(t, Result("__init__", "", "ok", [salt |-> th[t].salt, mk |-> None]))
    /\ UNCHANGED << items, secrets, files, blobs >>
    /\ UnchangedVault /\ UnchangedEnv /\ UnchangedHistory

\* unlock and lock of the Vault object thread t has made
unlock_own(t, password, use_argon2) ==
    /\ th[t].pc = "idle"
    /\ res[t].op = "__init__" /\ res[t].err = "ok"
    /\ res' = [res EXCEPT ![t].val.mk =
                   derive_master_key(password, res[t].val.salt, use_argon2)]
    /\ UNCHANGED th
    /\ UnchangedStores /\ UnchangedVault /\ UnchangedEnv /\ UnchangedHistory

lock_own(t) ==
    /\ th[t].pc = "idle"
    /\ res[t].op = "__init__" /\ res[t].err = "ok"
    /\ res' = [res EXCEPT ![t].val.mk = None]
    /\ UNCHANGED th
    /\ UnchangedStores /\ UnchangedVault /\ UnchangedEnv /\ UnchangedHistory

\* a lock that leaves the key in memory
lock_keeps_mk(t) ==
    /\ th[t].pc = "idle"
    /\ mk' = mk
    /\ pw' = Null
    /\ Return(t, Result("lock", "", "ok", None))
    /\ UnchangedStores /\ UnchangedEnv /\ UnchangedHistory
    /\ UNCHANGED salt

lock(t) ==
    /\ th[t].pc = "idle"
    /\ mk' = None
    /\ pw' = Null
    /\ Return(t, Result("lock", "", "ok", None))
    /\ UnchangedStores /\ UnchangedEnv /\ UnchangedHistory
    /\ UNCHANGED salt

\* The process stops wherever its threads are and a new one opens the same
\* database: Vault.__init__ leaves mk unset and reads the salt back
Restart ==
    /\ faults < MaxFaults
    /\ faults' = faults + 1
    /\ th' = [t \in AllThreads |-> Idle]
    /\ res' = [t \in AllThreads |-> NoResult]
    /\ mk' = None
    /\ pw' = Null
    /\ salt' = ensure_salt(meta, << "meta", "salt", 2 >>)[1]
    /\ meta' = ensure_salt(meta, << "meta", "salt", 2 >>)[2]
    /\ UNCHANGED << items, secrets, files, blobs, committed, written_pw, tampered >>
    /\ UnchangedEnv

\* The Vault object is dropped while no method runs and a new one is made on
\* the same database
reopen ==
    /\ \A t \in threads : th[t].pc = "idle"
    /\ th' = [t \in AllThreads |-> Idle]
    /\ res' = [t \in AllThreads |-> NoResult]
    /\ mk' = None
    /\ pw' = Null
    /\ salt' = ensure_salt(meta, << "meta", "salt", 2 >>)[1]
    /\ meta' = ensure_salt(meta, << "meta", "salt", 2 >>)[2]
    /\ UNCHANGED << items, secrets, files, blobs >>
    /\ UnchangedEnv /\ UnchangedHistory

Tick ==
    /\ now < MaxClock
    /\ now' = now + 1
    /\ UnchangedStores /\ UnchangedVault /\ UnchangedHistory
    /\ UNCHANGED << rng, threads, th, res >>

-----------------------------------------------------------------------------
(* encrypt_and_store_blob, shared by the five mutating methods *)

Plaintext(l) ==
    CASE l.op = "create_identity" ->
             json_dumps(IdentityDict(l.id, l.title, l.upd, now))
      [] l.op = "create_secret" ->
             json_dumps(SecretDict(l.id, l.upd.secret_type, l.upd.username,
                                   l.upd.password, now))
      [] OTHER -> l.pt

\* an encrypt_and_store_blob whose DEK and nonce do not come from the CSPRNG but
\* are the same on every call for a record
encrypt_and_store_blob_fixed_key(t) ==
    /\ th[t].pc = "enc"
    /\ LET l == th[t]
           rec == << TableOf(l.op), l.id >>
           dek == make_dek(<< rec[1], rec[2], 1 >>)
           ct == aead_encrypt(dek, Plaintext(l), encode(l.id),
                              token_bytes(12, << rec[1], rec[2], 2 >>))
           h == sha256_hex(ct)
       IN  /\ blobs' = Put(blobs, h, << >>)
           /\ th' = [th EXCEPT ![t] = [l EXCEPT !.pc = "bwrite", !.mk = mk, !.pw = pw,
                                              !.dek = dek,
                                              !.ct = ct, !.hash = h]]
           /\ rng' = [rng EXCEPT ![rec] = @ + 1]
    /\ UNCHANGED << meta, items, secrets, files, res, now, threads >>
    /\ UnchangedVault /\ UnchangedHistory

\* dek = make_dek(); aead_encrypt(dek, plaintext, aad); write_blob up to open(path, "wb"),
\* which creates the file empty or truncates it
encrypt_and_store_blob(t) ==
    /\ th[t].pc = "enc"
    /\ LET l == th[t]
           rec == << TableOf(l.op), l.id >>
           dek == make_dek(<< rec[1], rec[2], 3 * rng[rec] + 1 >>)
           ct == aead_encrypt(dek, Plaintext(l), encode(l.id),
                              token_bytes(12, << rec[1], rec[2], 3 * rng[rec] + 2 >>))
           h == sha256_hex(ct)
       IN  /\ blobs' = Put(blobs, h, << >>)
           /\ th' = [th EXCEPT ![t] = [l EXCEPT !.pc = "bwrite", !.mk = mk, !.pw = pw,
                                              !.dek = dek,
                                              !.ct = ct, !.hash = h]]
           /\ rng' = [rng EXCEPT ![rec] = @ + 1]
    /\ UNCHANGED << meta, items, secrets, files, res, now, threads >>
    /\ UnchangedVault /\ UnchangedHistory

\* f.write(ciphertext) and close; then wrap_dek(mk, dek, aad); the creating
\* methods then read ts = now_ms()
write_blob(t) ==
    /\ th[t].pc = "bwrite"
    /\ LET l == th[t]
           w == wrap_dek(l.mk, l.dek, encode(l.id),
                         token_bytes(12, [l.dek.id EXCEPT ![3] = @ + 2]))
       IN  /\ blobs' = Put(blobs, l.hash, l.ct)
           /\ IF l.op = "write_blob"
              THEN Return(t, Result(l.op, l.ct, "ok", [hash |-> l.hash]))
              ELSE IF w.err # "ok"
              THEN Return(t, Result(l.op, l.id, w.err, None))
              ELSE /\ th' = [th EXCEPT ![t] =
                                [l EXCEPT !.pc = "commit", !.wrapped = w.val,
                                          !.ts = IF l.op \in {"update_identity", "update_secret"}
                                                 THEN l.ts ELSE now]]
                   /\ UNCHANGED res
    /\ UNCHANGED << meta, items, secrets, files >>
    /\ UnchangedVault /\ UnchangedEnv /\ UnchangedHistory

\* write_blob called on its own, up to open(path, "wb"): h = sha256_hex(ciphertext),
\* the file is created empty or truncated
open_blob(t, ciphertext) ==
    /\ th[t].pc = "idle"
    /\ Cardinality(DOMAIN blobs \cup {sha256_hex(ciphertext)}) <= MaxBlobs
    /\ blobs' = Put(blobs, sha256_hex(ciphertext), << >>)
    /\ Goto(t, [Idle EXCEPT !.pc = "bwrite", !.op = "write_blob", !.ct = ciphertext,
                            !.hash = sha256_hex(ciphertext)])
    /\ UNCHANGED << meta, items, secrets, files >>
    /\ UnchangedVault /\ UnchangedEnv /\ UnchangedHistory

\* read_blob_by_hash called on its own
read_blob(t, h) ==
    /\ th[t].pc = "idle"
    /\ Return(t, Result("read_blob_by_hash", h, read_blob_by_hash(h).err,
                        read_blob_by_hash(h).val))
    /\ UnchangedStores /\ UnchangedVault /\ UnchangedEnv /\ UnchangedHistory

\* a write_blob that swallows the failure of f.write and returns the address
write_blob_fail_swallowed(t) ==
    /\ th[t].pc = "bwrite"
    /\ faults < MaxFaults
    /\ faults' = faults + 1
    /\ LET l == th[t]
           w == wrap_dek(l.mk, l.dek, encode(l.id),
                         token_bytes(12, [l.dek.id EXCEPT ![3] = @ + 2]))
       IN  IF w.err # "ok"
           THEN Return(t, Result(l.op, l.id, w.err, None))
           ELSE /\ th' = [th EXCEPT ![t] =
                             [l EXCEPT !.pc = "commit", !.wrapped = w.val,
                                       !.ts = IF l.op \in {"update_identity", "update_secret"}
                                              THEN l.ts ELSE now]]
                /\ UNCHANGED res
    /\ UnchangedStores /\ UnchangedVault /\ UnchangedEnv
    /\ UNCHANGED << committed, written_pw, tampered >>

\* f.write fails (disk full, I/O error): the file stays as open() left it
write_blob_fail(t) ==
    /\ th[t].pc = "bwrite"
    /\ faults < MaxFaults
    /\ faults' = faults + 1
    /\ Return(t, Result(th[t].op, th[t].id, "OSError", None))
    /\ UnchangedStores /\ UnchangedVault /\ UnchangedEnv
    /\ UNCHANGED << committed, written_pw, tampered >>

\* a commit whose INSERT reaches the database before the failure is raised
commit_fail_after_flush(t) ==
    /\ th[t].pc = "commit"
    /\ faults < MaxFaults
    /\ faults' = faults + 1
    /\ Return(t, Result(th[t].op, th[t].id, "OperationalError", None))
    /\ items' = IF th[t].op = "create_identity"
                THEN [i \in DOMAIN items \cup {th[t].id} |->
                         IF i = th[t].id
                         THEN [item_id |-> th[t].id, domain |-> th[t].domain,
                               title |-> th[t].title, detail_blob_hash |-> th[t].hash,
                               detail_dek_wrap |-> th[t].wrapped, has_attachments |-> 0,
                               site_type |-> "generic", trust_level |-> 0,
                               created_at |-> th[t].ts, updated_at |-> th[t].ts,
                               version |-> 1, tombstoned |-> 0]
                         ELSE items[i]]
                ELSE items
    /\ UNCHANGED << meta, secrets, files, blobs >>
    /\ UnchangedVault /\ UnchangedEnv
    /\ UNCHANGED << committed, written_pw, tampered >>

\* session.commit() fails (database locked, I/O error): the session rolls back
commit_fail(t) ==
    /\ th[t].pc = "commit"
    /\ faults < MaxFaults
    /\ faults' = faults + 1
    /\ Return(t, Result(th[t].op, th[t].id, "OperationalError", None))
    /\ UnchangedStores /\ UnchangedVault /\ UnchangedEnv
    /\ UNCHANGED << committed, written_pw, tampered >>

-----------------------------------------------------------------------------
(* Identity methods *)

\* Python's "x or d" on an Optional[int]
IntOr(x, d) == IF x = 0 THEN d ELSE x

create_identity(t, item_id, domain, name, pii) ==
    /\ th[t].pc = "idle"
    /\ BlobsClaimed < MaxBlobs
    /\ Enter(t, "create_identity", item_id, "enc",
             [Idle EXCEPT !.domain = domain, !.title = name, !.upd = pii])
    /\ UnchangedStores /\ UnchangedVault /\ UnchangedEnv /\ UnchangedHistory

ItemRow(l) ==
    [item_id |-> l.id, domain |-> l.domain, title |-> l.title,
     detail_blob_hash |-> l.hash, detail_dek_wrap |-> l.wrapped, has_attachments |-> 0,
     site_type |-> "generic", trust_level |-> 0, created_at |-> l.ts,
     updated_at |-> l.ts, version |-> 1, tombstoned |-> 0]

\* session.add(Item(...)); session.commit(); return blob_hash
\* a commit that replaces the row of an item_id that exists
commit_create_identity_replace(t) ==
    /\ th[t].pc = "commit" /\ th[t].op = "create_identity"
    /\ LET l == th[t]
       IN  /\ items' = Put(items, l.id, ItemRow(l))
           /\ committed' = [committed EXCEPT ![l.id] = 0]
           /\ written_pw' = [written_pw EXCEPT ![<< "items", l.id >>] = l.pw]
           /\ Return(t, Result(l.op, l.id, "ok", [hash |-> l.hash]))
    /\ UNCHANGED << meta, secrets, files, blobs, faults, tampered >>
    /\ UnchangedVault /\ UnchangedEnv

commit_create_identity(t) ==
    /\ th[t].pc = "commit" /\ th[t].op = "create_identity"
    /\ LET l == th[t]
       IN  IF l.id \in DOMAIN items
           THEN /\ Return(t, Result(l.op, l.id, "IntegrityError", None))
                /\ UNCHANGED << items, committed, written_pw >>
           ELSE /\ items' = Put(items, l.id, ItemRow(l))
                /\ committed' = [committed EXCEPT ![l.id] = 0]
                /\ written_pw' = [written_pw EXCEPT ![<< "items", l.id >>] = l.pw]
                /\ Return(t, Result(l.op, l.id, "ok", [hash |-> l.hash]))
    /\ UNCHANGED << meta, secrets, files, blobs, faults, tampered >>
    /\ UnchangedVault /\ UnchangedEnv

load_identity(t, item_id) ==
    /\ th[t].pc = "idle"
    /\ Enter(t, "load_identity", item_id, "get", Idle)
    /\ UnchangedStores /\ UnchangedVault /\ UnchangedEnv /\ UnchangedHistory

\* what load_identity returns or raises once past its assert
LoadIdentity(item_id) ==
    IF item_id \notin DOMAIN items THEN Raise("KeyError")
    ELSE LET item == items[item_id]
             plaintext == decrypt_blob_with_wrapped_dek(mk, item.detail_blob_hash,
                                                        item.detail_dek_wrap, encode(item_id))
         IN  IF plaintext.err # "ok" THEN Raise(plaintext.err)
             ELSE FromDict(json_loads(plaintext.val), IdentityFields, IdentityRequired)

get_load_identity(t) ==
    /\ th[t].pc = "get" /\ th[t].op = "load_identity"
    /\ LET r == LoadIdentity(th[t].id)
       IN  Return(t, Result("load_identity", th[t].id, r.err, r.val))
    /\ UnchangedStores /\ UnchangedVault /\ UnchangedEnv /\ UnchangedHistory

update_identity(t, item_id, updates) ==
    /\ th[t].pc = "idle"
    /\ BlobsClaimed < MaxBlobs
    /\ Enter(t, "update_identity", item_id, "get", [Idle EXCEPT !.upd = updates])
    /\ UnchangedStores /\ UnchangedVault /\ UnchangedEnv /\ UnchangedHistory

\* the new value of a column that follows a key of updates, or the loaded one
Synced(updates, k, old) ==
    IF k \in DOMAIN updates /\ updates[k] # Null THEN updates[k] ELSE old

\* session.get, decrypt, merge, title and domain kept in sync, ts = now_ms(),
\* new_blob = json.dumps(obj)
get_update_identity(t) ==
    /\ th[t].pc = "get" /\ th[t].op = "update_identity"
    /\ LET l == th[t]
       IN  IF l.id \notin DOMAIN items
           THEN Return(t, Result(l.op, l.id, "KeyError", None))
           ELSE LET item == items[l.id]
                    plaintext == decrypt_blob_with_wrapped_dek(
                                     mk, item.detail_blob_hash, item.detail_dek_wrap,
                                     encode(l.id))
                IN  IF plaintext.err # "ok"
                    THEN Return(t, Result(l.op, l.id, plaintext.err, None))
                    ELSE LET obj == MergeUpdates(json_loads(plaintext.val), l.upd, now)
                         IN  /\ th' = [th EXCEPT ![t] =
                                    [l EXCEPT !.pc = "enc", !.obj = obj,
                                              !.pt = json_dumps(obj),
                                              !.title = item.title, !.domain = item.domain,
                                              !.ver = item.version, !.ts = now,
                                              !.mk_dec = mk]]
                             /\ UNCHANGED res
    /\ UnchangedStores /\ UnchangedVault /\ UnchangedEnv /\ UnchangedHistory

\* the version update_identity writes, from the version it loaded
NextVersion(v) == IntOr(v, 1) + 1

\* the column the flush leaves in the database: the UPDATE names a column only
\* when the value assigned differs from the one the session loaded
Flushed(assigned, loaded, stored) == IF assigned # loaded THEN assigned ELSE stored

\* the row update_identity flushes: the attributes it assigned, over the row as
\* the database holds it
UpdatedItemRow(row, l) ==
    [row EXCEPT !.detail_blob_hash = l.hash, !.detail_dek_wrap = l.wrapped,
                !.updated_at = l.ts, !.version = NextVersion(l.ver),
                !.title = Flushed(Synced(l.upd, "name", l.title), l.title, @),
                !.domain = Flushed(Synced(l.upd, "domain", l.domain), l.domain, @)]

\* session.commit(); return IdentityBlob(**obj)
commit_update_identity(t) ==
    /\ th[t].pc = "commit" /\ th[t].op = "update_identity"
    /\ LET l == th[t]
           r == FromDict(l.obj, IdentityFields, IdentityRequired)
       IN  IF l.id \notin DOMAIN items
           THEN /\ Return(t, Result(l.op, l.id, "StaleDataError", None))
                /\ UNCHANGED << items, committed, written_pw >>
           ELSE /\ items' = [items EXCEPT ![l.id] = UpdatedItemRow(@, l)]
                /\ committed' = [committed EXCEPT ![l.id] = @ + 1]
                /\ written_pw' = [written_pw EXCEPT ![<< "items", l.id >>] = l.pw]
                /\ Return(t, Result(l.op, l.id, r.err, r.val))
    /\ UNCHANGED << meta, secrets, files, blobs, faults, tampered >>
    /\ UnchangedVault /\ UnchangedEnv

-----------------------------------------------------------------------------
(* Secret methods *)

create_secret(t, secret_id, item_id, secret_type, username, password) ==
    /\ th[t].pc = "idle"
    /\ BlobsClaimed < MaxBlobs
    /\ Enter(t, "create_secret", secret_id, "enc",
             [Idle EXCEPT !.owner = item_id,
                          !.upd = [secret_type |-> secret_type, username |-> username,
                                   password |-> password]])
    /\ UnchangedStores /\ UnchangedVault /\ UnchangedEnv /\ UnchangedHistory

SecretRow(l) ==
    [secret_id |-> l.id, item_id |-> l.owner, blob_hash |-> l.hash,
     dek_wrap |-> l.wrapped, secret_type |-> l.upd.secret_type,
     created_at |-> l.ts, updated_at |-> l.ts]

commit_create_secret(t) ==
    /\ th[t].pc = "commit" /\ th[t].op = "create_secret"
    /\ LET l == th[t]
       IN  IF l.id \in DOMAIN secrets
           THEN /\ Return(t, Result(l.op, l.id, "IntegrityError", None))
                /\ UNCHANGED << secrets, written_pw >>
           ELSE /\ secrets' = Put(secrets, l.id, SecretRow(l))
                /\ written_pw' = [written_pw EXCEPT ![<< "secrets", l.id >>] = l.pw]
                /\ Return(t, Result(l.op, l.id, "ok", [hash |-> l.hash]))
    /\ UNCHANGED << meta, items, files, blobs, committed, faults, tampered >>
    /\ UnchangedVault /\ UnchangedEnv

load_secret(t, secret_id) ==
    /\ th[t].pc = "idle"
    /\ Enter(t, "load_secret", secret_id, "get", Idle)
    /\ UnchangedStores /\ UnchangedVault /\ UnchangedEnv /\ UnchangedHistory

LoadSecret(secret_id) ==
    IF secret_id \notin DOMAIN secrets THEN Raise("KeyError")
    ELSE LET secret == secrets[secret_id]
             plaintext == decrypt_blob_with_wrapped_dek(mk, secret.blob_hash,
                                                        secret.dek_wrap, encode(secret_id))
         IN  IF plaintext.err # "ok" THEN Raise(plaintext.err)
             ELSE FromDict(json_loads(plaintext.val), SecretFields, SecretRequired)

get_load_secret(t) ==
    /\ th[t].pc = "get" /\ th[t].op = "load_secret"
    /\ LET r == LoadSecret(th[t].id)
       IN  Return(t, Result("load_secret", th[t].id, r.err, r.val))
    /\ UnchangedStores /\ UnchangedVault /\ UnchangedEnv /\ UnchangedHistory

update_secret(t, secret_id, updates) ==
    /\ th[t].pc = "idle"
    /\ BlobsClaimed < MaxBlobs
    /\ Enter(t, "update_secret", secret_id, "get", [Idle EXCEPT !.upd = updates])
    /\ UnchangedStores /\ UnchangedVault /\ UnchangedEnv /\ UnchangedHistory

get_update_secret(t) ==
    /\ th[t].pc = "get" /\ th[t].op = "update_secret"
    /\ LET l == th[t]
       IN  IF l.id \notin DOMAIN secrets
           THEN Return(t, Result(l.op, l.id, "KeyError", None))
           ELSE LET secret == secrets[l.id]
                    plaintext == decrypt_blob_with_wrapped_dek(
                                     mk, secret.blob_hash, secret.dek_wrap, encode(l.id))
                IN  IF plaintext.err # "ok"
                    THEN Return(t, Result(l.op, l.id, plaintext.err, None))
                    ELSE LET obj == MergeUpdates(json_loads(plaintext.val), l.upd, now)
                         IN  /\ th' = [th EXCEPT ![t] =
                                    [l EXCEPT !.pc = "enc", !.obj = obj,
                                              !.pt = json_dumps(obj), !.ts = now,
                                              !.mk_dec = mk]]
                             /\ UNCHANGED res
    /\ UnchangedStores /\ UnchangedVault /\ UnchangedEnv /\ UnchangedHistory

UpdatedSecretRow(row, l) ==
    [row EXCEPT !.blob_hash = l.hash, !.dek_wrap = l.wrapped, !.updated_at = l.ts]

commit_update_secret(t) ==
    /\ th[t].pc = "commit" /\ th[t].op = "update_secret"
    /\ LET l == th[t]
           r == FromDict(l.obj, SecretFields, SecretRequired)
       IN  IF l.id \notin DOMAIN secrets
           THEN /\ Return(t, Result(l.op, l.id, "StaleDataError", None))
                /\ UNCHANGED << secrets, written_pw >>
           ELSE /\ secrets' = [secrets EXCEPT ![l.id] = UpdatedSecretRow(@, l)]
                /\ written_pw' = [written_pw EXCEPT ![<< "secrets", l.id >>] = l.pw]
                /\ Return(t, Result(l.op, l.id, r.err, r.val))
    /\ UNCHANGED << meta, items, files, blobs, committed, faults, tampered >>
    /\ UnchangedVault /\ UnchangedEnv

-----------------------------------------------------------------------------
(* File methods *)

add_file(t, file_id, item_id, filename, mime_type, file_bytes) ==
    /\ th[t].pc = "idle"
    /\ BlobsClaimed < MaxBlobs
    /\ Enter(t, "add_file", file_id, "enc",
             [Idle EXCEPT !.owner = item_id, !.pt = file_bytes,
                          !.upd = [filename |-> filename, mime_type |-> mime_type]])
    /\ UnchangedStores /\ UnchangedVault /\ UnchangedEnv /\ UnchangedHistory

\* len(file_bytes)
BytesLen(b) == IF b.raw = "" THEN 0 ELSE 10

FileRow(l) ==
    [file_id |-> l.id, item_id |-> l.owner, blob_hash |-> l.hash, dek_wrap |-> l.wrapped,
     filename |-> l.upd.filename, mime_type |-> l.upd.mime_type,
     size_bytes |-> BytesLen(l.pt), created_at |-> l.ts, updated_at |-> l.ts]

\* session.query(Item).filter(Item.item_id == item_id).update({...})
MarkAttachments(tbl, item_id, ts) ==
    [i \in DOMAIN tbl |-> IF i = item_id
                          THEN [tbl[i] EXCEPT !.has_attachments = 1, !.updated_at = ts]
                          ELSE tbl[i]]

commit_add_file(t) ==
    /\ th[t].pc = "commit" /\ th[t].op = "add_file"
    /\ LET l == th[t]
       IN  IF l.id \in DOMAIN files
           THEN /\ Return(t, Result(l.op, l.id, "IntegrityError", None))
                /\ UNCHANGED << files, items, written_pw >>
           ELSE /\ files' = Put(files, l.id, FileRow(l))
                /\ written_pw' = [written_pw EXCEPT ![<< "files", l.id >>] = l.pw]
                /\ items' = MarkAttachments(items, l.owner, l.ts)
                /\ Return(t, Result(l.op, l.id, "ok", [hash |-> l.hash]))
    /\ UNCHANGED << meta, secrets, blobs, committed, faults, tampered >>
    /\ UnchangedVault /\ UnchangedEnv

load_file(t, file_id) ==
    /\ th[t].pc = "idle"
    /\ Enter(t, "load_file", file_id, "get", Idle)
    /\ UnchangedStores /\ UnchangedVault /\ UnchangedEnv /\ UnchangedHistory

LoadFile(file_id) ==
    IF file_id \notin DOMAIN files THEN Raise("KeyError")
    ELSE decrypt_blob_with_wrapped_dek(mk, files[file_id].blob_hash,
                                       files[file_id].dek_wrap, encode(file_id))

get_load_file(t) ==
    /\ th[t].pc = "get" /\ th[t].op = "load_file"
    /\ LET r == LoadFile(th[t].id)
       IN  Return(t, Result("load_file", th[t].id, r.err, r.val))
    /\ UnchangedStores /\ UnchangedVault /\ UnchangedEnv /\ UnchangedHistory

-----------------------------------------------------------------------------
(* Listings *)

ItemProjection(i) ==
    [item_id |-> i.item_id, domain |-> i.domain, title |-> i.title,
     created_at |-> i.created_at, updated_at |-> i.updated_at]

\* the orders ORDER BY updated_at DESC may return the rows in
ItemOrders ==
    {s \in [1..Cardinality(DOMAIN items) -> DOMAIN items] :
        /\ \A a, b \in DOMAIN s : a # b => s[a] # s[b]
        /\ \A a, b \in DOMAIN s : a < b => items[s[a]].updated_at >= items[s[b]].updated_at}

list_items(t) ==
    /\ th[t].pc = "idle"
    /\ \E s \in ItemOrders :
          Return(t, Result("list_items", "", "ok",
                           [rows |-> [a \in DOMAIN s |-> ItemProjection(items[s[a]])]]))
    /\ UnchangedStores /\ UnchangedVault /\ UnchangedEnv /\ UnchangedHistory

list_secrets_for_item(t, item_id) ==
    /\ th[t].pc = "idle"
    /\ Return(t, Result("list_secrets_for_item", item_id, "ok",
                        [rows |-> {[secret_id |-> secrets[s].secret_id,
                                    secret_type |-> secrets[s].secret_type] :
                                   s \in {x \in DOMAIN secrets : secrets[x].item_id = item_id}}]))
    /\ UnchangedStores /\ UnchangedVault /\ UnchangedEnv /\ UnchangedHistory

-----------------------------------------------------------------------------
(* Out-of-band edits of the index, made by hand while no method runs; the   *)
(* outcomes of earlier calls are forgotten                                 *)

AllIdle == \A t \in threads : th[t].pc = "idle"

\* UPDATE <table> SET <pk> = new WHERE <pk> = old
Rekey(tbl, pkcol, old, new) ==
    [k \in (DOMAIN tbl \ {old}) \cup {new} |->
        IF k = new THEN [tbl[old] EXCEPT ![pkcol] = new] ELSE tbl[k]]

CanTamper(tbl, old, new) ==
    /\ AllIdle
    /\ tampered < MaxTamper
    /\ old \in DOMAIN tbl /\ new \notin DOMAIN tbl

tamper_item_id(old, new) ==
    /\ CanTamper(items, old, new)
    /\ items' = Rekey(items, "item_id", old, new)
    /\ tampered' = tampered + 1
    /\ written_pw' = [written_pw EXCEPT ![<< "items", new >>] = written_pw[<< "items", old >>],
                                         ![<< "items", old >>] = Null]
    /\ res' = [t \in AllThreads |-> NoResult]
    /\ UNCHANGED << meta, secrets, files, blobs, committed, faults, th >>
    /\ UnchangedVault /\ UnchangedEnv

tamper_secret_id(old, new) ==
    /\ CanTamper(secrets, old, new)
    /\ secrets' = Rekey(secrets, "secret_id", old, new)
    /\ tampered' = tampered + 1
    /\ written_pw' = [written_pw EXCEPT ![<< "secrets", new >>] = written_pw[<< "secrets", old >>],
                                         ![<< "secrets", old >>] = Null]
    /\ res' = [t \in AllThreads |-> NoResult]
    /\ UNCHANGED << meta, items, files, blobs, committed, faults, th >>
    /\ UnchangedVault /\ UnchangedEnv

tamper_file_id(old, new) ==
    /\ CanTamper(files, old, new)
    /\ files' = Rekey(files, "file_id", old, new)
    /\ tampered' = tampered + 1
    /\ written_pw' = [written_pw EXCEPT ![<< "files", new >>] = written_pw[<< "files", old >>],
                                         ![<< "files", old >>] = Null]
    /\ res' = [t \in AllThreads |-> NoResult]
    /\ UNCHANGED << meta, items, secrets, blobs, committed, faults, th >>
    /\ UnchangedVault /\ UnchangedEnv

\* a blob file removed from blobs/sha256 by hand
delete_blob(h) ==
    /\ AllIdle
    /\ tampered < MaxTamper
    /\ BlobExists(h)
    /\ blobs' = [k \in DOMAIN blobs \ {h} |-> blobs[k]]
    /\ tampered' = tampered + 1
    /\ UNCHANGED << meta, items, secrets, files, committed, written_pw, faults, th, res >>
    /\ UnchangedVault /\ UnchangedEnv

-----------------------------------------------------------------------------
(* profile_secrets/generator.py: generate_secure_password *)

\* the shortest password the generator makes
MIN_LENGTH == 8
\* the lengths the callers ask for
Lengths == {0, 7, 8}

\* the four character classes, each cut down to one of its characters
uppercase == {"A"}
lowercase == {"a"}
digits == {"0"}
symbols == {"!"}
all_chars == uppercase \cup lowercase \cup digits \cup symbols

\* a generator that draws its first four characters from all classes together
generate_secure_password_any_four(t, length) ==
    /\ th[t].pc = "idle"
    /\ IF length < MIN_LENGTH
       THEN Return(t, Result("generate_secure_password", length, "ValueError", None))
       ELSE \E u \in all_chars, l \in all_chars, d \in all_chars, y \in all_chars :
               Goto(t, [Idle EXCEPT !.pc = "fill", !.op = "generate_secure_password",
                                    !.ver = length, !.obj = << u, l, d, y >>])
    /\ UnchangedStores /\ UnchangedVault /\ UnchangedEnv /\ UnchangedHistory

\* the length check and one secrets.choice from each class
generate_secure_password(t, length) ==
    /\ th[t].pc = "idle"
    /\ IF length < MIN_LENGTH
       THEN Return(t, Result("generate_secure_password", length, "ValueError", None))
       ELSE \E u \in uppercase, l \in lowercase, d \in digits, y \in symbols :
               Goto(t, [Idle EXCEPT !.pc = "fill", !.op = "generate_secure_password",
                                    !.ver = length, !.obj = << u, l, d, y >>])
    /\ UnchangedStores /\ UnchangedVault /\ UnchangedEnv /\ UnchangedHistory

\* for _ in range(remaining_length): password_chars.append(secrets.choice(all_chars));
\* after the loop the shuffle starts at the last index
fill_password(t) ==
    /\ th[t].pc = "fill"
    /\ IF Len(th[t].obj) < th[t].ver
       THEN \E c \in all_chars :
               th' = [th EXCEPT ![t] = [@ EXCEPT !.obj = Append(th[t].obj, c)]]
       ELSE th' = [th EXCEPT ![t] = [@ EXCEPT !.pc = "shuffle", !.ts = Len(th[t].obj)]]
    /\ UNCHANGED res
    /\ UnchangedStores /\ UnchangedVault /\ UnchangedEnv /\ UnchangedHistory

\* x with x[i] and x[j] exchanged
Swap(x, i, j) == [k \in 1..Len(x) |-> IF k = i THEN x[j] ELSE IF k = j THEN x[i] ELSE x[k]]

\* random.SystemRandom().shuffle: for i from the last index down to the second,
\* exchange x[i] with x[j], j drawn from the indices up to i; then "".join
shuffle_password(t) ==
    /\ th[t].pc = "shuffle"
    /\ IF th[t].ts > 1
       THEN /\ \E j \in 1..th[t].ts :
                  th' = [th EXCEPT ![t] = [@ EXCEPT !.obj = Swap(th[t].obj, th[t].ts, j),
                                                    !.ts = th[t].ts - 1]]
            /\ UNCHANGED res
       ELSE Return(t, Result("generate_secure_password", th[t].ver, "ok", th[t].obj))
    /\ UnchangedStores /\ UnchangedVault /\ UnchangedEnv /\ UnchangedHistory

-----------------------------------------------------------------------------
(* Specifications *)

\* Spec: one thread, one password, the clock standing still; every method of
\* the engine on every record kind
Init == InitVault /\ threads = {1}

Next ==
    \/ \E t \in threads, a \in UseArgon2 : unlock(t, "P1", a)
    \/ \E t \in threads : lock(t)
    \/ \E t \in threads, i \in ItemIds, d \in Domains, n \in Names, p \in Piis :
          create_identity(t, i, d, n, p)
    \/ \E t \in threads : commit_create_identity(t)
    \/ \E t \in threads, i \in ItemIds : load_identity(t, i)
    \/ \E t \in threads : get_load_identity(t)
    \/ \E t \in threads, i \in ItemIds, u \in IdentityUpdates : update_identity(t, i, u)
    \/ \E t \in threads : get_update_identity(t)
    \/ \E t \in threads : commit_update_identity(t)
    \/ \E t \in threads, s \in SecretIds, i \in OwnerIds :
          create_secret(t, s, i, "password", "alice", "p@ssw0rd!")
    \/ \E t \in threads : commit_create_secret(t)
    \/ \E t \in threads, s \in SecretIds : load_secret(t, s)
    \/ \E t \in threads : get_load_secret(t)
    \/ \E t \in threads, s \in SecretIds, u \in SecretUpdates : update_secret(t, s, u)
    \/ \E t \in threads : get_update_secret(t)
    \/ \E t \in threads : commit_update_secret(t)
    \/ \E t \in threads, f \in FileIds, i \in OwnerIds, b \in FileBytes :
          add_file(t, f, i, "passport.jpeg", "image/jpeg", b)
    \/ \E t \in threads : commit_add_file(t)
    \/ \E t \in threads, f \in FileIds : load_file(t, f)
    \/ \E t \in threads : get_load_file(t)
    \/ \E t \in threads : list_items(t)
    \/ \E t \in threads, i \in OwnerIds : list_secrets_for_item(t, i)
    \/ \E t \in threads : encrypt_and_store_blob(t)
    \/ \E t \in threads : write_blob(t)
    \/ reopen

Spec == Init /\ [][Next]_vars

\* SpecFaults: one thread, one password; the five mutating methods on every
\* record kind, with I/O failures, and crashes followed by a re-open
NextFaults ==
    \/ \E t \in threads, a \in UseArgon2 : unlock(t, "P1", a)
    \/ \E t \in threads, i \in ItemIds, d \in Domains, n \in Names, p \in Piis :
          create_identity(t, i, d, n, p)
    \/ \E t \in threads : commit_create_identity(t)
    \/ \E t \in threads, i \in ItemIds, u \in IdentityUpdates : update_identity(t, i, u)
    \/ \E t \in threads : get_update_identity(t)
    \/ \E t \in threads : commit_update_identity(t)
    \/ \E t \in threads, s \in SecretIds, i \in OwnerIds :
          create_secret(t, s, i, "password", "alice", "p@ssw0rd!")
    \/ \E t \in threads : commit_create_secret(t)
    \/ \E t \in threads, s \in SecretIds, u \in SecretUpdates : update_secret(t, s, u)
    \/ \E t \in threads : get_update_secret(t)
    \/ \E t \in threads : commit_update_secret(t)
    \/ \E t \in threads, f \in FileIds, i \in OwnerIds, b \in FileBytes :
          add_file(t, f, i, "passport.jpeg", "image/jpeg", b)
    \/ \E t \in threads : commit_add_file(t)
    \/ \E t \in threads : encrypt_and_store_blob(t)
    \/ \E t \in threads : write_blob(t)
    \/ \E t \in threads : write_blob_fail(t)
    \/ \E t \in threads : commit_fail(t)
    \/ Restart

SpecFaults == Init /\ [][NextFaults]_vars

\* SpecKeys: one thread, two passwords; create, update and load of every record
\* kind across lock, unlock and re-open
NextKeys ==
    \/ \E t \in threads, p \in Passwords, a \in UseArgon2 : unlock(t, p, a)
    \/ \E t \in threads : lock(t)
    \/ \E t \in threads, i \in ItemIds, d \in Domains, n \in Names, p \in Piis :
          create_identity(t, i, d, n, p)
    \/ \E t \in threads : commit_create_identity(t)
    \/ \E t \in threads, i \in ItemIds : load_identity(t, i)
    \/ \E t \in threads : get_load_identity(t)
    \/ \E t \in threads, i \in ItemIds : update_identity(t, i, [phone |-> "+2"])
    \/ \E t \in threads : get_update_identity(t)
    \/ \E t \in threads : commit_update_identity(t)
    \/ \E t \in threads, s \in SecretIds, i \in OwnerIds :
          create_secret(t, s, i, "password", "alice", "p@ssw0rd!")
    \/ \E t \in threads : commit_create_secret(t)
    \/ \E t \in threads, s \in SecretIds : load_secret(t, s)
    \/ \E t \in threads : get_load_secret(t)
    \/ \E t \in threads, f \in FileIds, i \in OwnerIds, b \in FileBytes :
          add_file(t, f, i, "passport.jpeg", "image/jpeg", b)
    \/ \E t \in threads : commit_add_file(t)
    \/ \E t \in threads, f \in FileIds : load_file(t, f)
    \/ \E t \in threads : get_load_file(t)
    \/ \E t \in threads : encrypt_and_store_blob(t)
    \/ \E t \in threads : write_blob(t)
    \/ reopen

SpecKeys == Init /\ [][NextKeys]_vars

\* SpecTamper: one thread, one password; create and load of every record kind,
\* and primary-key columns edited by hand
NextTamper ==
    \/ \E t \in threads, a \in UseArgon2 : unlock(t, "P1", a)
    \/ \E t \in threads, i \in ItemIds, d \in Domains, n \in Names, p \in Piis :
          create_identity(t, i, d, n, p)
    \/ \E t \in threads : commit_create_identity(t)
    \/ \E t \in threads, i \in ItemIds : load_identity(t, i)
    \/ \E t \in threads : get_load_identity(t)
    \/ \E t \in threads, s \in SecretIds, i \in OwnerIds :
          create_secret(t, s, i, "password", "alice", "p@ssw0rd!")
    \/ \E t \in threads : commit_create_secret(t)
    \/ \E t \in threads, s \in SecretIds : load_secret(t, s)
    \/ \E t \in threads : get_load_secret(t)
    \/ \E t \in threads, f \in FileIds, i \in OwnerIds, b \in FileBytes :
          add_file(t, f, i, "passport.jpeg", "image/jpeg", b)
    \/ \E t \in threads : commit_add_file(t)
    \/ \E t \in threads, f \in FileIds : load_file(t, f)
    \/ \E t \in threads : get_load_file(t)
    \/ \E t \in threads : encrypt_and_store_blob(t)
    \/ \E t \in threads : write_blob(t)
    \/ \E old \in ItemIds, new \in ItemIds : tamper_item_id(old, new)
    \/ \E old \in SecretIds, new \in SecretIds : tamper_secret_id(old, new)
    \/ \E old \in FileIds, new \in FileIds : tamper_file_id(old, new)

SpecTamper == Init /\ [][NextTamper]_vars

\* SpecConc: two threads on one Vault object; create, update and load of one item
InitConc == InitVault /\ threads = {1, 2}

NextConc ==
    \/ \E t \in threads, a \in UseArgon2 : unlock(t, "P1", a)
    \/ \E t \in threads, d \in Domains, n \in Names, p \in Piis :
          create_identity(t, "item-aaaa", d, n, p)
    \/ \E t \in threads : commit_create_identity(t)
    \/ \E t \in threads : load_identity(t, "item-aaaa")
    \/ \E t \in threads : get_load_identity(t)
    \/ \E t \in threads, u \in {[phone |-> "+2"], [name |-> "Bob", email |-> Null]} :
          update_identity(t, "item-aaaa", u)
    \/ \E t \in threads : get_update_identity(t)
    \/ \E t \in threads : commit_update_identity(t)
    \/ \E t \in threads : encrypt_and_store_blob(t)
    \/ \E t \in threads : write_blob(t)

SpecConc == InitConc /\ [][NextConc]_vars

\* SpecRace: two threads on one Vault object, two passwords; unlock and lock
\* called while create_identity and update_identity of one item are under way
NextRace ==
    \/ \E t \in threads, p \in Passwords, a \in UseArgon2 : unlock(t, p, a)
    \/ \E t \in threads : lock(t)
    \/ \E t \in threads, d \in Domains, n \in Names, p \in Piis :
          create_identity(t, "item-aaaa", d, n, p)
    \/ \E t \in threads : commit_create_identity(t)
    \/ \E t \in threads : update_identity(t, "item-aaaa", [phone |-> "+2"])
    \/ \E t \in threads : get_update_identity(t)
    \/ \E t \in threads : commit_update_identity(t)
    \/ \E t \in threads : encrypt_and_store_blob(t)
    \/ \E t \in threads : write_blob(t)

SpecRace == InitConc /\ [][NextRace]_vars

\* SpecPassword: one thread that calls generate_secure_password
NextPassword ==
    \/ \E t \in threads, n \in Lengths : generate_secure_password(t, n)
    \/ \E t \in threads : fill_password(t)
    \/ \E t \in threads : shuffle_password(t)

SpecPassword == Init /\ [][NextPassword]_vars

\* SpecClock: two threads on one Vault object while the wall clock advances;
\* create and update of one item and a file attached to it
NextClock ==
    \/ \E t \in threads, a \in UseArgon2 : unlock(t, "P1", a)
    \/ \E t \in threads, d \in Domains, n \in Names, p \in Piis :
          create_identity(t, "item-aaaa", d, n, p)
    \/ \E t \in threads : commit_create_identity(t)
    \/ \E t \in threads : update_identity(t, "item-aaaa", [phone |-> "+2"])
    \/ \E t \in threads : get_update_identity(t)
    \/ \E t \in threads : commit_update_identity(t)
    \/ \E t \in threads, b \in FileBytes :
          add_file(t, "", "item-aaaa", "passport.jpeg", "image/jpeg", b)
    \/ \E t \in threads : commit_add_file(t)
    \/ \E t \in threads : encrypt_and_store_blob(t)
    \/ \E t \in threads : write_blob(t)
    \/ Tick

SpecClock == InitConc /\ [][NextClock]_vars

\* SpecOpen: a new database file on which two threads each make a Vault object,
\* unlock it and lock it
InitOpen ==
    /\ rng = [r \in Records |-> 0]
    /\ salt = None
    /\ meta = EmptyMap
    /\ items = EmptyMap /\ secrets = EmptyMap /\ files = EmptyMap
    /\ blobs = EmptyMap
    /\ mk = None
    /\ pw = Null
    /\ written_pw = [r \in Records |-> Null]
    /\ now = 0
    /\ th = [t \in AllThreads |-> Idle]
    /\ res = [t \in AllThreads |-> NoResult]
    /\ faults = 0
    /\ committed = [i \in ItemIds |-> 0]
    /\ tampered = 0
    /\ threads = {1, 2}

NextOpen ==
    \/ \E t \in threads : ensure_salt_get(t)
    \/ \E t \in threads : ensure_salt_merge(t)
    \/ \E t \in threads : ensure_salt_commit(t)
    \/ \E t \in threads, p \in Passwords, a \in BOOLEAN : unlock_own(t, p, a)
    \/ \E t \in threads : lock_own(t)

SpecOpen == InitOpen /\ [][NextOpen]_vars

\* SpecLost: one thread, one password; create and load of every record kind,
\* and blob files removed by hand
NextLost ==
    \/ \E t \in threads, a \in UseArgon2 : unlock(t, "P1", a)
    \/ \E t \in threads, i \in ItemIds, d \in Domains, n \in Names, p \in Piis :
          create_identity(t, i, d, n, p)
    \/ \E t \in threads : commit_create_identity(t)
    \/ \E t \in threads, i \in ItemIds : load_identity(t, i)
    \/ \E t \in threads : get_load_identity(t)
    \/ \E t \in threads, s \in SecretIds, i \in OwnerIds :
          create_secret(t, s, i, "password", "alice", "p@ssw0rd!")
    \/ \E t \in threads : commit_create_secret(t)
    \/ \E t \in threads, s \in SecretIds : load_secret(t, s)
    \/ \E t \in threads : get_load_secret(t)
    \/ \E t \in threads, f \in FileIds, i \in OwnerIds, b \in FileBytes :
          add_file(t, f, i, "passport.jpeg", "image/jpeg", b)
    \/ \E t \in threads : commit_add_file(t)
    \/ \E t \in threads, f \in FileIds : load_file(t, f)
    \/ \E t \in threads : get_load_file(t)
    \/ \E t \in threads : encrypt_and_store_blob(t)
    \/ \E t \in threads : write_blob(t)
    \/ \E h \in DOMAIN blobs : delete_blob(h)

SpecLost == Init /\ [][NextLost]_vars

\* SpecBlobs: two threads that call write_blob and read_blob_by_hash themselves,
\* with ciphertexts of their own
NextBlobs ==
    \/ \E t \in threads, c \in Ciphertexts : open_blob(t, c)
    \/ \E t \in threads : write_blob(t)
    \/ \E t \in threads, c \in Ciphertexts : read_blob(t, sha256_hex(c))

SpecBlobs == InitConc /\ [][NextBlobs]_vars

-----------------------------------------------------------------------------
(* Reading the stores and the outcomes of calls, for the properties below *)

Table(tbl) ==
    CASE tbl = "items" -> items
      [] tbl = "secrets" -> secrets
      [] OTHER -> files

\* the records that have a row: << table, primary key >>
StoredRecords == {r \in Records : r[2] \in DOMAIN Table(r[1])}

HashOf(r) == IF r[1] = "items" THEN items[r[2]].detail_blob_hash ELSE Table(r[1])[r[2]].blob_hash
WrapOf(r) == IF r[1] = "items" THEN items[r[2]].detail_dek_wrap ELSE Table(r[1])[r[2]].dek_wrap

\* the associated data the stored payload ciphertext and the stored wrapped DEK
\* of a record were produced with, and the plaintext the payload holds
PayloadAad(r) == blobs[HashOf(r)][1].aad
WrapAad(r) == WrapOf(r)[1].aad
StoredPayload(r) ==
    IF r[1] = "files" THEN blobs[HashOf(r)][1].pt ELSE json_loads(blobs[HashOf(r)][1].pt)

LoadOps == {"load_identity", "load_secret", "load_file"}
RecordOps == Mutating \cup LoadOps \cup {"list_items", "list_secrets_for_item"}

\* the record a finished call was about
RecordOf(r) == << TableOf(r.op), r.id >>

\* thread t has finished a load that got past the locked check
Loaded(t) == res[t].op \in LoadOps /\ res[t].err # "AssertionError"

-----------------------------------------------------------------------------
(* Properties *)

\* C1: whatever creates, updates and add_file calls have run, failed in f.write or
\* in commit, or been cut off by a crash, the blob hash of every row of items,
\* secrets and files names a file of the blob store, and that file holds the
\* whole blob of that hash
C1_RowsReferenceStoredBlobs ==
    \A r \in StoredRecords :
        BlobExists(HashOf(r)) /\ sha256_hex(blobs[HashOf(r)]) = HashOf(r)

\* a failure or crash has left a truncated blob file behind, next to an item
\* that was created and then updated, and no method is running
C1_Witness ==
    /\ AllIdle
    /\ faults = 1
    /\ \E h \in DOMAIN blobs : blobs[h] = << >>
    /\ \E i \in DOMAIN items : items[i].version = 2

\* C2: a load of a record that has a row, made while unlocked under the key the
\* record was written with, succeeds and returns exactly the plaintext last
\* stored for the record
C2_LoadReturnsStoredPlaintext ==
    \A t \in threads :
        (Loaded(t) /\ RecordOf(res[t]) \in StoredRecords)
            => /\ res[t].err = "ok"
               /\ res[t].val = StoredPayload(RecordOf(res[t]))

\* C3: every record operation attempted while MK is unset fails with the locked
\* error and returns no data
C3_LockedOperationsFail ==
    \A t \in threads :
        (res[t].op \in RecordOps /\ mk = None)
            => res[t].err = "AssertionError" /\ res[t].val = None

\* C4 as stated: whenever the vault is unlocked, every wrapped DEK of the index
\* unwraps under the current MK
C4_EveryWrapUnwraps ==
    mk # None =>
        \A r \in StoredRecords : unwrap_dek(mk, WrapOf(r), encode(r[2])).err = "ok"

\* C4: whenever the vault is unlocked, every wrapped DEK of the index that was
\* written under the password of the current unlock (the salt and the KDF
\* being the same) unwraps under the current MK with the primary key as aad
C4_WrapsOfCurrentPasswordUnwrap ==
    mk # None =>
        \A r \in StoredRecords :
            written_pw[r] = pw => unwrap_dek(mk, WrapOf(r), encode(r[2])).err = "ok"

\* unlocked, with a row of empty primary key written under the current password
\* and another row written under the other password
C4_Witness ==
    /\ mk # None
    /\ \E r \in StoredRecords : r[2] = "" /\ written_pw[r] = pw
    /\ \E r \in StoredRecords : written_pw[r] \notin {pw, Null}

\* C5: for every record, the stored payload ciphertext and the stored wrapped
\* DEK were both produced with associated data equal to the UTF-8 bytes of the
\* record's primary key
C5_AadIsPrimaryKey ==
    \A r \in StoredRecords :
        PayloadAad(r) = encode(r[2]) /\ WrapAad(r) = encode(r[2])

\* the primary key of the row is not the one its payload was encrypted for
Moved(r) == PayloadAad(r) # encode(r[2])

\* C6: once the primary key of a row has been changed without re-encrypting, a
\* load under the new primary key fails with InvalidTag (the crypto failure)
\* and returns no plaintext
C6_LoadOfRekeyedRowFails ==
    \A t \in threads :
        (Loaded(t) /\ RecordOf(res[t]) \in StoredRecords /\ Moved(RecordOf(res[t])))
            => res[t].err = "InvalidTag" /\ res[t].val = None

\* a file row written for the empty file_id was moved to file_id
\* "vault-dek-wrap-v1", the one edit after which the wrapped DEK still unwraps,
\* and load_file under the new id has failed
C6_Witness ==
    /\ tampered = 1
    /\ \E t \in threads :
          /\ res[t].op = "load_file" /\ res[t].id = "vault-dek-wrap-v1"
          /\ res[t].id \in DOMAIN files
          /\ PayloadAad(<< "files", res[t].id >>) = encode("")
          /\ res[t].err = "InvalidTag"

\* secret_id is the id some secret row was moved to by hand
NewSecretId(id) == id \in DOMAIN secrets /\ Moved(<< "secrets", id >>)

\* secret_id is the id some secret row was moved away from by hand, and has no
\* row since
OriginalSecretId(id) ==
    /\ id \notin DOMAIN secrets
    /\ \E s \in DOMAIN secrets : PayloadAad(<< "secrets", s >>) = encode(id)

\* C7 as stated: after a secret row's secret_id was changed by hand, load_secret
\* fails with InvalidTag under the original id and under the new id
C7_BothIdsCryptoFailure ==
    \A t \in threads :
        (Loaded(t) /\ res[t].op = "load_secret"
                   /\ (NewSecretId(res[t].id) \/ OriginalSecretId(res[t].id)))
            => res[t].err = "InvalidTag"

\* C7: after a secret row's secret_id was changed by hand, load_secret under the
\* new id fails with InvalidTag and load_secret under the original id fails
\* with KeyError (not found); neither returns data
C7_NewIdCryptoFailureOriginalIdNotFound ==
    \A t \in threads :
        (Loaded(t) /\ res[t].op = "load_secret")
            => /\ NewSecretId(res[t].id) => res[t].err = "InvalidTag" /\ res[t].val = None
               /\ OriginalSecretId(res[t].id) => res[t].err = "KeyError" /\ res[t].val = None

\* a secret row was moved by hand and load_secret was called with the id it used
\* to have
C7_Witness ==
    /\ tampered = 1
    /\ \E t \in threads :
          Loaded(t) /\ res[t].op = "load_secret" /\ OriginalSecretId(res[t].id)

\* C8: unlock always succeeds and leaves MK set; and a load of a record whose
\* row was written under another password than that of the current unlock fails
\* with InvalidTag and returns no plaintext
C8_WrongPasswordLoadFails ==
    \A t \in threads :
        /\ res[t].op = "unlock" => res[t].err = "ok" /\ mk # None
        /\ (Loaded(t) /\ RecordOf(res[t]) \in StoredRecords
                      /\ written_pw[RecordOf(res[t])] # pw)
               => res[t].err = "InvalidTag" /\ res[t].val = None

\* records of all three kinds were written under P1, the vault is unlocked
\* with P2, and a load of one of them has failed
C8_Witness ==
    /\ pw = "P2"
    /\ DOMAIN items # {} /\ DOMAIN secrets # {} /\ DOMAIN files # {}
    /\ \A r \in StoredRecords : written_pw[r] = "P1"
    /\ \E t \in threads : Loaded(t) /\ RecordOf(res[t]) \in StoredRecords

\* thread t returns from update_identity without an error in this step
UpdateSucceeds(t) ==
    /\ th[t].op = "update_identity" /\ th[t].pc = "commit"
    /\ res'[t].op = "update_identity" /\ res'[t].err = "ok"

\* C9: a new Item row has version 1, every update_identity that succeeds raises
\* the version of its item by exactly 1, and no step lowers the version of an
\* item
C9_VersionRisesByOne ==
    [][ /\ \A i \in DOMAIN items' :
              IF i \in DOMAIN items
              THEN items'[i].version >= items[i].version
              ELSE items'[i].version = 1
        /\ \A t \in threads :
              UpdateSucceeds(t) =>
                  items'[th[t].id].version = items[th[t].id].version + 1 ]_vars

\* C10: however update_identity calls on one item interleave, k committed
\* updates leave the item at version 1 + k
C10_VersionCountsCommittedUpdates ==
    \A i \in DOMAIN items : items[i].version = 1 + committed[i]

\* the methods that decrypt the stored payload before they encrypt the new one
Updating == {"update_identity", "update_secret"}

\* C11: a record operation that has passed its unlocked check encrypts and
\* wraps under an MK that is set, and that is the MK it decrypted with, also
\* when another thread calls unlock or lock meanwhile
C11_OneMasterKeyPerOperation ==
    \A t \in threads :
        th[t].pc \in {"bwrite", "commit"}
            => /\ th[t].mk # None
               /\ th[t].op \in Updating => th[t].mk = th[t].mk_dec

\* the step inserts or modifies a row of the index
IndexChanged == << items, secrets, files >>' # << items, secrets, files >>

\* C12: a step changes the index only as the commit of a method whose blob is
\* already in the blob store with its whole content; a step in which the blob
\* write fails changes no row; a step in which the commit fails changes no row
\* and leaves the blob that was written referenced by no row
C12_BlobWrittenBeforeCommit ==
    [][ /\ IndexChanged =>
              \E t \in threads :
                  /\ th[t].pc = "commit" /\ th'[t].pc = "idle"
                  /\ BlobExists(th[t].hash) /\ blobs[th[t].hash] = th[t].ct
        /\ \A t \in threads :
              (th[t].pc = "bwrite" /\ res'[t].err = "OSError") => ~IndexChanged
        /\ \A t \in threads :
              (th[t].pc = "commit" /\ res'[t].err = "OperationalError")
                  => /\ ~IndexChanged
                     /\ blobs'[th[t].hash] = th[t].ct
                     /\ \A r \in StoredRecords : HashOf(r) # th[t].hash ]_vars

\* a commit has failed on an index that already holds an item, and the blob
\* written for it is in the blob store, whole and referenced by no row
C12_Witness ==
    /\ DOMAIN items # {}
    /\ \E t \in threads : res[t].err = "OperationalError"
    /\ \E h \in DOMAIN blobs :
          blobs[h] # << >> /\ \A r \in StoredRecords : HashOf(r) # h

\* C13: once no write is under way, every file of the blob store holds bytes
\* whose SHA-256 is the address it is stored under, so that read(H) returns
\* bytes that hash to H and no blob file carries another name than its hash
C13_BlobNameIsHashOfContent ==
    AllIdle => \A h \in DOMAIN blobs : sha256_hex(read_blob_by_hash(h).val) = h

\* the file at address h holds the whole blob of that address
BlobComplete(h) == BlobExists(h) /\ sha256_hex(blobs[h]) = h

\* thread t commits an update of a row in this step
UpdateCommits(t) ==
    /\ th[t].op \in Updating /\ th[t].pc = "commit" /\ th'[t].pc = "idle"
    /\ IndexChanged

\* C14: no step removes a file of the blob store, and no step changes a file
\* that holds the whole blob of its address; an update that commits leaves
\* the row with another blob hash than it had, and the blob it referenced
\* before is still in the store, unchanged
C14_BlobStoreAdditive ==
    [][ /\ \A h \in DOMAIN blobs :
              /\ h \in DOMAIN blobs'
              /\ BlobComplete(h) => blobs'[h] = blobs[h]
        /\ \A t \in threads, r \in Records :
              (UpdateCommits(t) /\ r = << TableOf(th[t].op), th[t].id >>)
                  => /\ HashOf(r)' # HashOf(r)
                     /\ BlobComplete(HashOf(r))
                     /\ blobs'[HashOf(r)] = blobs[HashOf(r)] ]_vars

\* an item was updated without any failure, and the blob its row referenced
\* before the update is still in the store, whole, referenced by no row
C14_Witness ==
    /\ faults = 0
    /\ \E i \in DOMAIN items :
          /\ items[i].version = 2
          /\ \E h \in DOMAIN blobs :
                /\ BlobComplete(h)
                /\ blobs[h][1].aad = encode(i)
                /\ blobs[h][1].key.id[1] = "items"
                /\ \A r \in StoredRecords : HashOf(r) # h

\* thread t, whose last call was a write_blob that returned address h, reads
\* address h in this step
ReadsOwnWrite(t) ==
    /\ th[t].pc = "idle"
    /\ res[t].op = "write_blob" /\ res[t].err = "ok"
    /\ res'[t].op = "read_blob_by_hash" /\ res'[t].id = res[t].val.hash

\* C15: a read of an address issued after a write of a ciphertext to that
\* address has returned yields exactly that ciphertext, also while another
\* write of the same ciphertext is under way; and when no write is under way,
\* an address written once or several times holds exactly that ciphertext
C15_RewriteInvisibleToReaders ==
    [][ /\ \A t \in threads :
              ReadsOwnWrite(t) => res'[t].err = "ok" /\ res'[t].val = res[t].id
        /\ AllIdle' => \A h \in DOMAIN blobs' : BlobComplete(h)' ]_vars

\* C16 as stated: two files with identical contents added under different
\* file_ids have equal blob_hash values, so one blob file serves both
C16_IdenticalFilesShareOneBlob ==
    \A f \in DOMAIN files, g \in DOMAIN files :
        (/\ f # g
         /\ BlobExists(files[f].blob_hash) /\ BlobExists(files[g].blob_hash)
         /\ blobs[files[f].blob_hash][1].pt = blobs[files[g].blob_hash][1].pt)
            => files[f].blob_hash = files[g].blob_hash

\* C16: two files with identical contents added under different file_ids have
\* different blob_hash values and two blob files exist, each holding the same
\* contents encrypted separately; add_file returns the blob_hash of its row
C16_IdenticalFilesHaveOwnBlobs ==
    /\ \A f \in DOMAIN files, g \in DOMAIN files :
          f # g => /\ files[f].blob_hash # files[g].blob_hash
                   /\ BlobComplete(files[f].blob_hash)
                   /\ BlobComplete(files[g].blob_hash)
                   /\ blobs[files[f].blob_hash][1].pt = blobs[files[g].blob_hash][1].pt
    /\ \A t \in threads :
          (res[t].op = "add_file" /\ res[t].err = "ok")
              => /\ res[t].id \in DOMAIN files
                 /\ res[t].val.hash = files[res[t].id].blob_hash

C16_Witness ==
    /\ DOMAIN files = FileIds
    /\ Cardinality(FileIds) = 2
    /\ \E t \in threads : res[t].op = "add_file" /\ res[t].err = "ok"

\* thread t completes a load in this step
LoadReturns(t) == th[t].pc = "get" /\ th[t].op \in LoadOps /\ th'[t].pc = "idle"

\* C17: a load of a primary key that no row has raises KeyError; a load of a
\* row whose blob file is missing raises FileNotFoundError; either way no
\* payload is returned and no row of the index changes
C17_LoadOfMissingRowOrBlobFails ==
    [][ \A t \in threads :
          LoadReturns(t) =>
              LET r == << TableOf(th[t].op), th[t].id >>
                  row == r \in StoredRecords
              IN  /\ ~row => res'[t].err = "KeyError"
                  /\ (row /\ ~BlobExists(HashOf(r))) => res'[t].err = "FileNotFoundError"
                  /\ (~row \/ ~BlobExists(HashOf(r)))
                        => /\ res'[t].val = None
                           /\ UNCHANGED << items, secrets, files >> ]_vars

C17_Witness ==
    \E t \in threads :
        /\ res[t].op = "load_identity" /\ res[t].err = "FileNotFoundError"
        /\ res[t].id \in DOMAIN items
        /\ ~BlobExists(items[res[t].id].detail_blob_hash)

\* the payload dictionary encrypted in the blob of stored record r
StoredDict(r) == json_loads(blobs[HashOf(r)][1].pt)

\* C18: an update that commits returns the shallow merge of the stored payload
\* with updates: non-null keys of updates take the value from updates, every
\* other key but audit keeps its stored value; the new blob holds that merge,
\* and a later load of the record returns it
C18_UpdateIsShallowMerge ==
    [][ \A t \in threads, r \in Records :
          /\ (UpdateCommits(t) /\ r = << TableOf(th[t].op), th[t].id >>)
                => /\ res'[t].err = "ok"
                   /\ \A k \in NonNull(th[t].upd) : res'[t].val[k] = th[t].upd[k]
                   /\ \A k \in DOMAIN StoredDict(r) \ (NonNull(th[t].upd) \cup {"audit"}) :
                         res'[t].val[k] = StoredDict(r)[k]
                   /\ \A k \in DOMAIN StoredDict(r)' :
                         StoredDict(r)'[k] = res'[t].val[k]
          /\ (/\ LoadReturns(t) /\ r = << TableOf(th[t].op), th[t].id >>
              /\ r[1] # "files" /\ r \in StoredRecords)
                => /\ res'[t].err = "ok"
                   /\ \A k \in DOMAIN StoredDict(r) : res'[t].val[k] = StoredDict(r)[k] ]_vars

\* C19: an update_identity whose updates carry a name or a domain, and that
\* commits, returns the updated payload without an error and leaves the title
\* and domain columns of the row at the values supplied; a load_identity of an
\* item that was so updated succeeds
C19_TitleAndDomainFollowUpdates ==
    [][ \A t \in threads :
          /\ (/\ UpdateCommits(t) /\ th[t].op = "update_identity"
              /\ NonNull(th[t].upd) \cap {"name", "domain"} # {})
                => /\ res'[t].err = "ok"
                   /\ "name" \in NonNull(th[t].upd)
                         => /\ items'[th[t].id].title = th[t].upd["name"]
                            /\ res'[t].val["name"] = th[t].upd["name"]
                   /\ "domain" \in NonNull(th[t].upd)
                         => items'[th[t].id].domain = th[t].upd["domain"]
          /\ (/\ LoadReturns(t) /\ th[t].op = "load_identity"
              /\ th[t].id \in DOMAIN items
              /\ items[th[t].id].domain \notin Domains)
                => res'[t].err = "ok" ]_vars

\* C20: in every state, a File row whose item_id names an Item row goes with
\* has_attachments = 1 on that Item, and an Item with has_attachments = 1 has a
\* File row that references it
C20_FileRowAndFlagAgree ==
    /\ \A f \in DOMAIN files :
          files[f].item_id \in DOMAIN items => items[files[f].item_id].has_attachments = 1
    /\ \A i \in DOMAIN items :
          items[i].has_attachments = 1 => \E f \in DOMAIN files : files[f].item_id = i

\* every value that can be read back from the database file or the blob
\* directory without a key: the meta values, the plaintext and the nonce of
\* every blob, and the plaintext and the nonce of every wrapped DEK of a row
PersistedValues ==
    {meta[k] : k \in DOMAIN meta}
    \cup {b64decode(meta[k]) : k \in DOMAIN meta}
    \cup {blobs[h][1].pt : h \in {x \in DOMAIN blobs : blobs[x] # << >>}}
    \cup {blobs[h][1].nonce : h \in {x \in DOMAIN blobs : blobs[x] # << >>}}
    \cup {WrapOf(r)[1].pt : r \in StoredRecords}
    \cup {WrapOf(r)[1].nonce : r \in StoredRecords}

\* the keys under which persisted ciphertexts were made
PersistedKeys ==
    {blobs[h][1].key : h \in {x \in DOMAIN blobs : blobs[x] # << >>}}
    \cup {WrapOf(r)[1].key : r \in StoredRecords}

\* C21: no meta value, blob or wrapped DEK holds the MK, as content or as the
\* key it was encrypted with; the MK is unset at open, after lock and after a
\* re-open, and is set exactly from an unlock to the next lock or re-open
C21_MasterKeyOnlyInMemory ==
    /\ mk # None => /\ mk \notin PersistedValues
                    /\ mk \notin PersistedKeys
    /\ \A t \in threads : th[t].mk # None => th[t].mk \notin PersistedValues
    /\ mk # None <=> pw # Null
    /\ \A t \in threads : res[t].op \in {"lock", "unlock"}
          => (mk # None <=> res[t].op = "unlock")

C21_Witness ==
    /\ mk # None
    /\ \E r \in StoredRecords : BlobComplete(HashOf(r))
    /\ \E t \in threads : res[t].op = "unlock"

\* C22: the salt row of meta, once committed, never changes, and every Vault
\* object that its constructor returns holds the salt that is stored, and
\* derives its MK from it
C22_SaltWrittenOnce ==
    [][ /\ "salt" \in DOMAIN meta
            => "salt" \in DOMAIN meta' /\ meta'["salt"] = meta["salt"]
        /\ \A t \in threads :
              (res'[t].op = "__init__" /\ res'[t].err = "ok")
                  => /\ res'[t].val.salt = b64decode(meta'["salt"])
                     /\ res'[t].val.mk # None
                           => res'[t].val.mk.salt = b64decode(meta'["salt"]) ]_vars

\* the rows of the three record tables, by record
RowOf(r) == Table(r[1])[r[2]]

\* C23: every row has created_at <= updated_at, and no step lowers the
\* created_at or the updated_at of a row
C23_TimestampsOrdered ==
    [][ \A r \in Records :
          /\ r \in StoredRecords' => RowOf(r)'.created_at <= RowOf(r)'.updated_at
          /\ (r \in StoredRecords /\ r \in StoredRecords')
                => /\ RowOf(r)'.created_at >= RowOf(r).created_at
                   /\ RowOf(r)'.updated_at >= RowOf(r).updated_at ]_vars

\* the aad arguments a caller can hand to unwrap_dek: the bytes of a primary
\* key, or none
WrapAads == {encode(i) : i \in ItemIds \cup SecretIds \cup FileIds} \cup {NoBytes}

\* C24: the wrapped DEK a mutating method has obtained from wrap_dek with the
\* bytes of its primary key as aad carries exactly that aad; unwrap_dek under
\* the same MK and the same aad gives the DEK back, and under another MK, or
\* with any other aad or with none, fails with InvalidTag
C24_WrapBindsProvidedAad ==
    \A t \in threads :
        (th[t].pc = "commit" /\ th[t].op \in Mutating /\ th[t].mk # None)
            => /\ th[t].wrapped[1].aad = encode(th[t].id)
               /\ unwrap_dek(th[t].mk, th[t].wrapped, encode(th[t].id)) = Ok(th[t].dek)
               /\ \A b \in WrapAads \ {encode(th[t].id)} :
                     unwrap_dek(th[t].mk, th[t].wrapped, b).err = "InvalidTag"
               /\ \A p \in Passwords \ {th[t].pw} :
                     unwrap_dek(derive_master_key(p, salt, TRUE), th[t].wrapped,
                                encode(th[t].id)).err = "InvalidTag"

\* the characters of password p
CharsOf(p) == {p[k] : k \in 1..Len(p)}

\* C25: generate_secure_password(length) with length >= 8 returns a string of
\* that length with a character of each of the four classes and no character
\* outside them; with length < 8 it raises ValueError and returns nothing
C25_PasswordHasEveryClass ==
    \A t \in threads :
        res[t].op = "generate_secure_password"
            => IF res[t].id >= 8
               THEN /\ res[t].err = "ok"
                    /\ Len(res[t].val) = res[t].id
                    /\ CharsOf(res[t].val) \cap uppercase # {}
                    /\ CharsOf(res[t].val) \cap lowercase # {}
                    /\ CharsOf(res[t].val) \cap digits # {}
                    /\ CharsOf(res[t].val) \cap symbols # {}
                    /\ CharsOf(res[t].val) \subseteq all_chars
               ELSE res[t].err = "ValueError" /\ res[t].val = None

\* a password that came back with its first character no longer the uppercase
\* one it was built with
C25_Witness ==
    \E t \in threads :
        /\ res[t].op = "generate_secure_password" /\ res[t].err = "ok"
        /\ res[t].id = 8
        /\ res[t].val[1] \notin uppercase

\* thread t returns from update_identity or update_secret with an error in
\* this step
UpdateRaises(t) ==
    /\ th[t].op \in Updating /\ th[t].pc # "idle" /\ th'[t].pc = "idle"
    /\ res'[t].op = th[t].op /\ res'[t].err # "ok"

\* C26: a step in which update_identity or update_secret raises leaves every
\* row of the index as it was
C26_FailedUpdateLeavesIndex ==
    [][ \A t \in threads : UpdateRaises(t) => ~IndexChanged ]_vars

\* C27: a load_identity or load_secret of a record whose row exists, whose
\* blob is in the store and whose row was written under the password of the
\* current unlock succeeds, whatever updates were applied to the record before
C27_RecordStaysLoadable ==
    [][ \A t \in threads, r \in Records :
          (/\ LoadReturns(t) /\ th[t].op \in {"load_identity", "load_secret"}
           /\ r = << TableOf(th[t].op), th[t].id >>
           /\ r \in StoredRecords
           /\ BlobComplete(HashOf(r))
           /\ mk # None /\ written_pw[r] = pw)
              => res'[t].err = "ok" ]_vars

\* the name of the primary key in the payload of a record of table tbl, and the
\* schema string of its kind
PayloadKey(tbl) == IF tbl = "items" THEN "item_id" ELSE "secret_id"
PayloadSchema(tbl) == IF tbl = "items" THEN "vault.identity@1" ELSE "vault.secret@1"

\* C28: the payload of every Item and Secret row records, as its item_id or
\* secret_id, the primary key of the row, and as its schema the schema string
\* of its kind
C28_PayloadNamesItsRow ==
    \A r \in StoredRecords :
        (r[1] # "files" /\ BlobComplete(HashOf(r)))
            => /\ StoredDict(r)[PayloadKey(r[1])] = r[2]
               /\ StoredDict(r)["schema"] = PayloadSchema(r[1])

\* C29: every Secret row and every File row names an Item row that exists, and
\* an Item has has_attachments = 1 exactly when a File row names it
C29_NoDanglingOwner ==
    /\ \A x \in DOMAIN secrets : secrets[x].item_id \in DOMAIN items
    /\ \A f \in DOMAIN files : files[f].item_id \in DOMAIN items
    /\ \A i \in DOMAIN items :
          items[i].has_attachments = 1 <=> \E f \in DOMAIN files : files[f].item_id = i

Creating == {"create_identity", "create_secret", "add_file"}

\* thread t returns in this step from the commit of a create_identity,
\* create_secret or add_file whose primary key has a row already
DuplicateCreateReturns(t) ==
    /\ th[t].pc = "commit" /\ th[t].op \in Creating
    /\ << TableOf(th[t].op), th[t].id >> \in StoredRecords
    /\ th'[t].pc = "idle" /\ res'[t].op = th[t].op

\* C30: create_identity, create_secret and add_file with a primary key that
\* has a row already raise and return nothing; no row of the index changes,
\* the has_attachments and updated_at of the owning Item included, no blob
\* changes, and the blob the call wrote is referenced by no row
C30_DuplicateCreateChangesNothing ==
    [][ \A t \in threads :
          DuplicateCreateReturns(t)
              => /\ res'[t].err # "ok" /\ res'[t].val = None
                 /\ ~IndexChanged
                 /\ blobs' = blobs
                 /\ \A r \in StoredRecords : HashOf(r) # th[t].hash ]_vars

C30_Witness ==
    /\ \E t \in threads : res[t].op = "add_file" /\ res[t].err = "IntegrityError"
    /\ \E i \in DOMAIN items : items[i].has_attachments = 1
    /\ \E h \in DOMAIN blobs :
          BlobComplete(h) /\ \A r \in StoredRecords : HashOf(r) # h

====
